---- MODULE Spec2Model ----
(***************************************************************************)
(* Model of src/app.py: the random DAG generator generate_dag, the seeding *)
(* done by main/set_seed, and the root-cause analysis analyze_root_cause.  *)
(* A node label is a one-character string; a path string ("".join(path))   *)
(* is the sequence of its characters.                                      *)
(***************************************************************************)
EXTENDS Integers, Sequences, FiniteSets, TLC

VARIABLES node_count, max_depth, nodes, adj, i, possible_children,
          num_extra_edges, layer, pc,
          issue_nodes, all_paths, potential_root_causes, sorted_root_causes, apc,
          random_state, seed, golden

gvars == <<node_count, max_depth, nodes, adj, i, possible_children,
           num_extra_edges, layer, pc>>
avars == <<issue_nodes, all_paths, potential_root_causes, sorted_root_causes, apc>>
svars == <<random_state, seed, golden>>
vars == <<gvars, avars, svars>>

\* ---------------------------------------------------------------- bounds
MaxNodes == 4
MaxDepth == 3
MaxIssues == 3
MaxSeed == 2

\* ---------------------------------------------------------------- helpers
Min(a, b) == IF a < b THEN a ELSE b
Max(a, b) == IF a > b THEN a ELSE b

\* string.ascii_uppercase
ascii_uppercase ==
    <<"A", "B", "C", "D", "E", "F", "G", "H", "I", "J", "K", "L", "M",
      "N", "O", "P", "Q", "R", "S", "T", "U", "V", "W", "X", "Y", "Z">>

Range(s) == {s[k] : k \in 1..Len(s)}

\* position of a label in the alphabet (0-based, as Python indexes nodes)
Index(l) == (CHOOSE k \in 1..Len(ascii_uppercase) : ascii_uppercase[k] = l) - 1

\* Python slice s[lo:hi] for 0 <= lo, 0 <= hi: clamps at the end of s, and is
\* empty when lo >= hi.
Slice(s, lo, hi) == SubSeq(s, lo + 1, Min(hi, Len(s)))

\* list.remove(x): drops the first occurrence of x
Remove(s, x) ==
    LET k == CHOOSE m \in 1..Len(s) : s[m] = x /\ \A n \in 1..(m - 1) : s[n] # x
    IN SubSeq(s, 1, k - 1) \o SubSeq(s, k + 1, Len(s))

\* ------------------------------------------------------------ the graph
\* nx.DiGraph: adj maps a node to its successors in insertion order.
EmptyGraph(ns) == [v \in Range(ns) |-> <<>>]

\* G.add_edge(u, v): appends v to u's successors; a no-op when u -> v exists.
AddEdgeReversed(a, u, v) ==
    IF u \in Range(a[v]) THEN a ELSE [a EXCEPT ![v] = Append(a[v], u)]

AddEdge(a, u, v) ==
    IF v \in Range(a[u]) THEN a ELSE [a EXCEPT ![u] = Append(a[u], v)]

\* G.edges
Edges(a) == {e \in (DOMAIN a) \X (DOMAIN a) : e[2] \in Range(a[e[1]])}

\* nodes[max(0, i - max_depth):i]
possible_parents(ns, idx, d) == Slice(ns, Max(0, idx - d), idx)

\* nodes[i+1:min(node_count, i + max_depth + 1)]
PossibleChildrenWide(ns, n, idx, d) == Slice(ns, idx + 1, Min(n, idx + d + 2))

PossibleChildren(ns, n, idx, d) == Slice(ns, idx + 1, Min(n, idx + d + 1))

\* nx.topological_generations(G) followed by the loop that sets 'layer':
\* generation g is the set of nodes all of whose predecessors lie in earlier
\* generations (Kahn levelling).  A node left without generation keeps its
\* previous attribute value.
RECURSIVE Generations(_, _, _, _)
Generations(a, rem, lay, g) ==
    LET zero == {v \in rem : \A u \in rem : <<u, v>> \notin Edges(a)}
    IN IF rem = {} \/ zero = {} THEN lay
       ELSE Generations(a, rem \ zero,
                        [v \in DOMAIN lay |-> IF v \in zero THEN g ELSE lay[v]],
                        g + 1)

\* a levelling by the nearest source instead of the farthest
RECURSIVE GenerationsNearest(_, _, _, _)
GenerationsNearest(a, rem, lay, g) ==
    LET zero == {v \in rem : \/ \A u \in DOMAIN a : <<u, v>> \notin Edges(a)
                             \/ \E u \in (DOMAIN a) \ rem : <<u, v>> \in Edges(a)}
    IN IF rem = {} \/ zero = {} THEN lay
       ELSE GenerationsNearest(a, rem \ zero,
                        [v \in DOMAIN lay |-> IF v \in zero THEN g ELSE lay[v]],
                        g + 1)

LayersNearest(a, lay) == GenerationsNearest(a, DOMAIN a, lay, 0)

Layers(a, lay) == Generations(a, DOMAIN a, lay, 0)

NoLayer == -1

\* ------------------------------------------------- generate_dag, by steps
\* Entry of generate_dag(n, d): lines 11-13 and the head of the first loop.
Start(n, d) ==
    /\ node_count = n
    /\ max_depth = d
    /\ nodes = Slice(ascii_uppercase, 0, n)
    /\ adj = EmptyGraph(nodes)
    /\ layer = [v \in Range(nodes) |-> NoLayer]
    /\ possible_children = <<>>
    /\ num_extra_edges = 0
    /\ i = IF 1 < n THEN 1 ELSE 0
    /\ pc = IF 1 < n THEN "backbone" ELSE "extra"

\* One iteration of the backbone loop; c is what random.choice draws, as a
\* position in possible_parents.  random.choice of an empty list and nodes[i]
\* past the end of the list both raise IndexError.
BackboneStep(c) ==
    /\ pc = "backbone"
    /\ LET pp == possible_parents(nodes, i, max_depth)
       IN IF pp = <<>> \/ i >= Len(nodes)
          THEN /\ pc' = "raised"
               /\ UNCHANGED <<adj, i>>
          ELSE /\ adj' = AddEdge(adj, pp[c + 1], nodes[i + 1])
               /\ i' = IF i + 1 < node_count THEN i + 1 ELSE 0
               /\ pc' = IF i + 1 < node_count THEN "backbone" ELSE "extra"
    /\ UNCHANGED <<node_count, max_depth, nodes, possible_children,
                   num_extra_edges, layer>>

\* Head of one iteration of the extra-edge loop; k is what random.randint
\* draws.  With k = 0 the inner loop does not run.
ExtraStart(k) ==
    /\ pc = "extra"
    /\ i < node_count
    /\ possible_children' = PossibleChildren(nodes, node_count, i, max_depth)
    /\ num_extra_edges' = k
    /\ i' = IF k = 0 THEN i + 1 ELSE i
    /\ pc' = IF k = 0 THEN "extra" ELSE "inner"
    /\ UNCHANGED <<node_count, max_depth, nodes, adj, layer>>

\* One iteration of the inner loop; c is what random.choice draws.
ExtraEdge(c) ==
    /\ pc = "inner"
    /\ IF possible_children # <<>>
       THEN /\ adj' = AddEdge(adj, nodes[i + 1], possible_children[c + 1])
            /\ possible_children' = Remove(possible_children, possible_children[c + 1])
       ELSE UNCHANGED <<adj, possible_children>>
    /\ num_extra_edges' = num_extra_edges - 1
    /\ i' = IF num_extra_edges = 1 THEN i + 1 ELSE i
    /\ pc' = IF num_extra_edges = 1 THEN "extra" ELSE "inner"
    /\ UNCHANGED <<node_count, max_depth, nodes, layer>>

\* Lines 30-35: the layer attributes, then return G.
Layering ==
    /\ pc = "extra"
    /\ i >= node_count
    /\ layer' = Layers(adj, layer)
    /\ pc' = "done"
    /\ UNCHANGED <<node_count, max_depth, nodes, adj, i, possible_children,
                   num_extra_edges>>

\* the values random.choice(seq) can draw, as positions
Choices(s) == 0..Max(0, Len(s) - 1)

\* ------------------------------------- generation under arbitrary draws
Params ==
    ((0..MaxNodes) \X (-1..MaxDepth))
      \cup ({Len(ascii_uppercase) + 1} \X (-1..1))

NoAnalysis ==
    /\ issue_nodes = <<>>
    /\ all_paths = <<>>
    /\ potential_root_causes = <<>>
    /\ sorted_root_causes = <<>>
    /\ apc = "idle"

NoSeed ==
    /\ random_state = 0
    /\ seed = 0
    /\ golden = <<>>

Init ==
    /\ \E p \in Params : Start(p[1], p[2])
    /\ NoAnalysis
    /\ NoSeed

Backbone ==
    /\ \E c \in Choices(possible_parents(nodes, i, max_depth)) : BackboneStep(c)
    /\ UNCHANGED <<avars, svars>>

Extra ==
    /\ \E k \in 0..Len(PossibleChildren(nodes, node_count, i, max_depth)) : ExtraStart(k)
    /\ UNCHANGED <<avars, svars>>

Inner ==
    /\ \E c \in Choices(possible_children) : ExtraEdge(c)
    /\ UNCHANGED <<avars, svars>>

Finish ==
    /\ Layering
    /\ UNCHANGED <<avars, svars>>

NextGen == Backbone \/ Extra \/ Inner \/ Finish

SpecGen == Init /\ [][NextGen]_vars

\* ------------------------------------------------- analyze_root_cause
\* nx.all_simple_paths(G, source, target): the simple paths in depth-first
\* order, successors taken in insertion order.  path is the current path, k
\* the position of the next successor of its last node to try.  The search
\* does not go on through the target.
RECURSIVE PathsFrom(_, _, _, _)
PathsFrom(a, path, target, k) ==
    LET u == path[Len(path)]
        succ == a[u]
    IN IF k > Len(succ) THEN <<>>
       ELSE LET v == succ[k]
                here == IF v \in Range(path) THEN <<>>
                        ELSE IF v = target THEN <<Append(path, v)>>
                        ELSE PathsFrom(a, Append(path, v), target, 1)
            IN here \o PathsFrom(a, path, target, k + 1)

\* The call of line 62, for source # target (the labels of issue_nodes are
\* distinct).  A source that is no node raises NodeNotFound; a target that is
\* no node is a string, which networkx takes as a set of target labels, none
\* of which is ever reached.
all_simple_paths(a, source, target) ==
    IF source \notin DOMAIN a THEN [raised |-> TRUE, paths |-> <<>>]
    ELSE [raised |-> FALSE, paths |-> PathsFrom(a, <<source>>, target, 1)]

\* first index of the inner loop, for end in issue_nodes[i+1:] (0-based)
InnerStartAll(idx) == 0

InnerStart(idx) == idx + 1

\* Lines 59-66, from the pair (issue[s], issue[e]) on (0-based s, e), acc the
\* path strings collected so far.  NodeNotFound is not caught by the except
\* clause and ends the function.
RECURSIVE CollectPaths(_, _, _, _, _)
CollectPaths(a, issue, s, e, acc) ==
    IF s >= Len(issue) THEN [raised |-> FALSE, paths |-> acc]
    ELSE IF e >= Len(issue)
         THEN CollectPaths(a, issue, s + 1, InnerStart(s + 1), acc)
         ELSE LET r == all_simple_paths(a, issue[s + 1], issue[e + 1])
              IN IF r.raised THEN [raised |-> TRUE, paths |-> acc]
                 ELSE CollectPaths(a, issue, s, e + 1, acc \o r.paths)

\* spath in path, on strings
IsSubstring(spath, path) ==
    \E off \in 0..(Len(path) - Len(spath)) :
        \A k \in 1..Len(spath) : path[off + k] = spath[k]

\* Lines 77-82: the scan of the remaining paths with its two counters,
\* stopped by the break at the first path that contains spath.
RECURSIVE Scan(_, _, _, _, _)
Scan(spath, rest, k, not_in_count, all_path_count) ==
    IF k > Len(rest) THEN <<not_in_count, all_path_count>>
    ELSE IF IsSubstring(spath, rest[k]) THEN <<not_in_count, all_path_count + 1>>
    ELSE Scan(spath, rest, k + 1, not_in_count + 1, all_path_count + 1)

\* Lines 73-84: pop the front path, scan what remains, keep the path when
\* both counters agree.
RECURSIVE FilterQueue(_)
FilterQueue(queue) ==
    IF queue = <<>> THEN <<>>
    ELSE LET spath == Head(queue)
             rest == Tail(queue)
             cnt == Scan(spath, rest, 1, 0, 0)
         IN (IF cnt[1] = cnt[2] THEN <<spath>> ELSE <<>>) \o FilterQueue(rest)

\* a filter that also looks at the paths found earlier
FilterSymmetric(paths) ==
    LET keep(k) == \A m \in 1..Len(paths) : m = k \/ ~IsSubstring(paths[k], paths[m])
        F[k \in 0..Len(paths)] ==
            IF k = 0 THEN <<>>
            ELSE F[k - 1] \o (IF keep(k) THEN <<paths[k]>> ELSE <<>>)
    IN F[Len(paths)]

\* Lines 69-84
PotentialRootCauses(paths) ==
    IF Len(paths) = 1 THEN <<paths[1]>> ELSE FilterQueue(paths)

\* path[-1]
TerminalFirst(path) == path[1]

TerminalNode(path) == path[Len(path)]

\* Lines 87-90: the defaultdict, as its items in insertion order.
RECURSIVE RootCauseCounts(_, _, _)
RootCauseCounts(paths, k, counts) ==
    IF k > Len(paths) THEN counts
    ELSE LET node == TerminalNode(paths[k])
             pos == {m \in 1..Len(counts) : counts[m][1] = node}
         IN RootCauseCounts(paths, k + 1,
                IF pos = {} THEN Append(counts, <<node, 1>>)
                ELSE [m \in 1..Len(counts) |->
                        IF m \in pos THEN <<node, counts[m][2] + 1>> ELSE counts[m]])

\* sorted(items, key=lambda x: x[1], reverse=True): a stable sort, which
\* with reverse=True still keeps equal keys in their original order.
RECURSIVE SortedAscending(_)
SortedAscending(items) ==
    IF items = <<>> THEN <<>>
    ELSE LET x == items[Len(items)]
             front == SortedAscending(SubSeq(items, 1, Len(items) - 1))
             before == SelectSeq(front, LAMBDA y : y[2] <= x[2])
             after == SelectSeq(front, LAMBDA y : y[2] > x[2])
         IN before \o <<x>> \o after

RECURSIVE Sorted(_)
Sorted(items) ==
    IF items = <<>> THEN <<>>
    ELSE LET x == items[Len(items)]
             front == Sorted(SubSeq(items, 1, Len(items) - 1))
             before == SelectSeq(front, LAMBDA y : y[2] >= x[2])
             after == SelectSeq(front, LAMBDA y : y[2] < x[2])
         IN before \o <<x>> \o after

\* the lists of at most MaxIssues distinct labels out of the set ls
DistinctLists(ls) ==
    UNION {{l \in [1..n -> ls] : \A x, y \in 1..n : l[x] = l[y] => x = y} :
           n \in 0..MaxIssues}

\* all_nodes of main: the labels the multiselect offers
Labels == Range(nodes)

\* what main passes as issue_nodes: a non-empty selection of distinct nodes,
\* in the order selected
IssueLists == DistinctLists(Labels) \ {<<>>}

\* the first label that is no node of the graph
ForeignLabel == ascii_uppercase[Len(nodes) + 1]

\* what a direct caller of analyze_root_cause can pass as issue_nodes: lists
\* of distinct labels, of nodes or not, the empty list included
ArgumentLists == DistinctLists(Labels \cup {ForeignLabel})

\* analyze_root_cause(G, issue) on the generated graph.  The function reads
\* nothing but its arguments, so one call per behaviour reaches all it can do.
Analyze(issue) ==
    /\ pc = "done"
    /\ apc = "idle"
    /\ issue_nodes' = issue
    /\ LET c == CollectPaths(adj, issue, 0, InnerStart(0), <<>>)
           prc == PotentialRootCauses(c.paths)
       IN /\ all_paths' = c.paths
          /\ potential_root_causes' = IF c.raised THEN <<>> ELSE prc
          /\ sorted_root_causes' =
                IF c.raised THEN <<>> ELSE Sorted(RootCauseCounts(prc, 1, <<>>))
          /\ apc' = IF c.raised THEN "raised" ELSE "returned"
    /\ UNCHANGED <<gvars, svars>>

\* the call of main (line 128) on its selection
AnalyzeRootCause ==
    /\ pc = "done"
    /\ apc = "idle"
    /\ \E issue \in IssueLists : Analyze(issue)

\* a direct call with a list main never passes
AnalyzeCall ==
    /\ pc = "done"
    /\ apc = "idle"
    /\ \E issue \in ArgumentLists \ IssueLists : Analyze(issue)

Next == Backbone \/ Extra \/ Inner \/ Finish \/ AnalyzeRootCause \/ AnalyzeCall

Spec == Init /\ [][Next]_vars

\* --------------------------------------------- main: seeded generation
\* The module-level generator of random.  After random.seed(s) its output is
\* fixed: MTWords[s] lists the top 8 bits of the first 32-bit words the
\* Mersenne Twister then produces (getrandbits(k) for k <= 8 is the top k
\* bits of the next word).  A generator state is the seed it was last seeded
\* with and the number of words drawn since.
MTWords ==
    (0 :> <<
         216, 98, 194, 227, 107, 10, 66, 247, 130, 124, 103, 235, 200, 212, 77, 247,
         122, 91, 149, 228, 232, 55, 129, 35, 72, 35, 193, 24, 158, 204, 64, 252,
         232, 136, 251, 180, 207, 154, 230, 37, 79, 25, 186, 18, 230, 217, 175, 84,
         120, 143, 25, 90, 111, 80, 156, 163, 233, 52, 247, 141, 122, 113, 221, 133,
         66, 15, 206, 235, 140, 234, 3, 23, 184, 215, 102, 181, 211, 200, 171, 160,
         0, 156, 126, 211, 222, 85, 62, 186, 83, 180, 222, 16, 48, 234, 145, 56,
         61, 205, 247, 36, 205, 139, 114, 23, 20, 254, 81, 224, 130, 255, 238, 125,
         27, 77, 141, 74, 180, 31, 140, 85, 208, 236, 138, 52, 246, 204, 154, 140 >>) @@
    (1 :> <<
         34, 145, 216, 205, 195, 16, 65, 30, 126, 194, 115, 120, 166, 97, 201, 53,
         24, 124, 7, 228, 213, 99, 110, 155, 195, 196, 0, 178, 114, 68, 184, 205,
         58, 151, 241, 26, 230, 81, 7, 5, 6, 166, 138, 2, 240, 225, 97, 175,
         55, 248, 108, 185, 7, 135, 56, 195, 112, 240, 126, 141, 59, 88, 59, 173,
         56, 194, 117, 243, 74, 237, 5, 106, 214, 234, 142, 236, 164, 25, 47, 161,
         254, 185, 220, 75, 30, 190, 85, 229, 184, 249, 182, 128, 239, 247, 108, 129,
         212, 233, 171, 48, 77, 72, 150, 249, 225, 127, 216, 240, 129, 100, 150, 218,
         8, 122, 62, 190, 204, 103, 106, 170, 44, 93, 140, 225, 179, 198, 172, 188 >>) @@
    (2 :> <<
         244, 220, 242, 217, 14, 23, 21, 92, 213, 43, 188, 207, 171, 218, 78, 64,
         155, 54, 155, 9, 148, 174, 40, 255, 110, 163, 100, 205, 185, 220, 254, 130,
         243, 95, 139, 239, 113, 128, 68, 230, 9, 222, 7, 93, 119, 238, 81, 232,
         97, 108, 228, 226, 134, 42, 143, 45, 60, 59, 6, 45, 83, 44, 34, 130,
         130, 92, 255, 131, 172, 143, 46, 254, 228, 114, 203, 106, 188, 134, 232, 232,
         195, 93, 202, 151, 90, 92, 251, 219, 246, 114, 41, 244, 193, 102, 183, 189,
         118, 167, 135, 63, 125, 71, 236, 127, 128, 131, 212, 203, 90, 169, 226, 116,
         230, 231, 118, 89, 145, 185, 235, 142, 185, 116, 124, 168, 56, 240, 83, 208 >>) @@
    (3 :> <<
         60, 151, 139, 33, 94, 234, 154, 121, 160, 148, 16, 155, 3, 232, 214, 120,
         66, 141, 59, 49, 254, 183, 120, 138, 214, 140, 121, 101, 163, 220, 38, 59,
         162, 38, 222, 237, 133, 99, 189, 3, 171, 198, 16, 40, 194, 245, 151, 10,
         77, 199, 7, 210, 221, 68, 121, 152, 184, 235, 224, 99, 182, 201, 235, 109,
         101, 186, 205, 147, 113, 246, 239, 34, 224, 93, 24, 9, 34, 126, 55, 66,
         247, 172, 111, 199, 160, 218, 77, 107, 129, 213, 98, 146, 89, 136, 149, 104,
         149, 59, 231, 86, 174, 234, 237, 7, 219, 71, 253, 155, 171, 178, 41, 178,
         220, 83, 246, 138, 231, 146, 145, 26, 182, 167, 54, 162, 212, 252, 146, 68 >>) @@
    (4 :> <<
         60, 77, 26, 184, 101, 122, 39, 23, 17, 5, 102, 140, 234, 74, 204, 253,
         195, 15, 56, 133, 137, 92, 70, 199, 44, 211, 27, 67, 54, 241, 237, 6,
         212, 164, 206, 66, 204, 69, 49, 42, 79, 74, 160, 222, 187, 245, 218, 217,
         225, 95, 22, 216, 155, 86, 171, 99, 129, 63, 45, 63, 121, 71, 22, 241,
         239, 209, 221, 241, 140, 215, 76, 1, 232, 74, 146, 180, 225, 79, 217, 195,
         130, 49, 105, 108, 153, 73, 110, 115, 41, 59, 78, 66, 208, 204, 11, 20,
         11, 118, 160, 255, 71, 132, 136, 165, 120, 179, 87, 37, 255, 172, 50, 17,
         105, 233, 51, 162, 161, 112, 70, 47, 91, 111, 191, 150, 82, 162, 142, 50 >>) @@
    (123 :> <<
         13, 68, 22, 196, 104, 68, 27, 214, 230, 223, 9, 97, 137, 143, 85, 87,
         218, 13, 40, 34, 86, 143, 85, 179, 62, 41, 0, 231, 111, 198, 22, 224,
         152, 96, 17, 1, 80, 187, 114, 26, 231, 11, 23, 170, 36, 32, 202, 232,
         5, 74, 233, 110, 146, 122, 67, 120, 214, 9, 196, 78, 87, 133, 205, 123,
         52, 210, 155, 163, 134, 144, 207, 245, 80, 3, 101, 228, 196, 165, 131, 111,
         175, 137, 163, 203, 170, 152, 227, 213, 124, 133, 171, 107, 95, 130, 8, 216,
         193, 165, 46, 185, 209, 21, 233, 124, 168, 67, 43, 85, 86, 141, 100, 226,
         18, 185, 116, 99, 146, 199, 86, 4, 48, 150, 22, 212, 160, 93, 3, 229 >>)

Pow2(k) == <<1, 2, 4, 8, 16, 32, 64, 128, 256>>[k + 1]

\* n.bit_length()
BitLength(n) == CHOOSE k \in 0..8 : n < Pow2(k) /\ (k = 0 \/ Pow2(k - 1) <= n)

\* random.seed(s)
Seeded(s) == [seed |-> s, pos |-> 0]

\* Random._randbelow(n), n > 0: k = n.bit_length(), then getrandbits(k) until
\* the value is below n.  ok is FALSE when MTWords ends before that.
RECURSIVE DrawAt(_, _, _)
DrawAt(s, pos, n) ==
    IF pos >= Len(MTWords[s]) THEN [ok |-> FALSE, value |-> 0, pos |-> pos]
    ELSE LET r == MTWords[s][pos + 1] \div Pow2(8 - BitLength(n))
         IN IF r < n THEN [ok |-> TRUE, value |-> r, pos |-> pos + 1]
            ELSE DrawAt(s, pos + 1, n)

\* the draw below n from state rs (random.choice(seq) takes the position
\* _randbelow(len(seq)), random.randint(0, b) is _randbelow(b + 1)), the state
\* after it, and whether the listed words suffice for it
RandBelow(rs, n) == DrawAt(rs.seed, rs.pos, n).value

NextState(rs, n) == [seed |-> rs.seed, pos |-> DrawAt(rs.seed, rs.pos, n).pos]

CanDraw(rs, n) == DrawAt(rs.seed, rs.pos, n).ok

\* set_seed(default_seed), from generator state rs
SetSeedKeep(rs, default_seed) == rs

set_seed(rs, default_seed) == Seeded(default_seed)

\* Lines 98 and 106-107: set_seed(), then set_seed(seed) when the input is truthy
MainSeed(rs, s) ==
    LET r == set_seed(rs, 123)
    IN IF s # 0 THEN set_seed(r, s) ELSE r

\* the sliders of lines 103-104 and the number input of line 106
SeededParams == (2..MaxNodes) \X (2..MaxDepth) \X (0..MaxSeed)

\* Before the first run of main: no graph, and the generator as seeded from
\* the operating system at import, which is any state.
InitSeed ==
    /\ node_count = 0
    /\ max_depth = 0
    /\ nodes = <<>>
    /\ adj = EmptyGraph(<<>>)
    /\ layer = [v \in {} |-> NoLayer]
    /\ possible_children = <<>>
    /\ num_extra_edges = 0
    /\ i = 0
    /\ pc = "idle"
    /\ NoAnalysis
    /\ random_state \in {Seeded(s) : s \in DOMAIN MTWords}
    /\ seed = 0
    /\ golden = <<>>

\* the record of the first call in the history g, if any
FirstCall(g) == IF g = <<>> THEN <<>> ELSE <<g[1]>>

\* One run of main with the button pressed: the seeding, then the entry of
\* generate_dag(num_nodes, depth).
Main ==
    /\ pc \in {"idle", "done"}
    /\ \E p \in SeededParams :
        /\ random_state' = MainSeed(random_state, p[3])
        /\ seed' = p[3]
        /\ node_count' = p[1]
        /\ max_depth' = p[2]
        /\ nodes' = Slice(ascii_uppercase, 0, p[1])
        /\ adj' = EmptyGraph(nodes')
        /\ layer' = [v \in Range(nodes') |-> NoLayer]
    /\ possible_children' = <<>>
    /\ num_extra_edges' = 0
    /\ i' = 1
    /\ pc' = "backbone"
    /\ golden' = FirstCall(golden)
    /\ UNCHANGED avars

\* One run of main without the button pressed (any other widget change): the
\* seeding only; st.session_state.dag stays.
Rerun ==
    /\ pc \in {"idle", "done"}
    /\ \E s \in 0..MaxSeed :
        /\ random_state' = MainSeed(random_state, s)
        /\ seed' = s
    /\ UNCHANGED <<gvars, avars, golden>>

\* random.choice of an empty list raises before it draws: the generator
\* stays as it is.
SeededBackbone ==
    /\ pc = "backbone"
    /\ LET n == Len(possible_parents(nodes, i, max_depth))
       IN IF n = 0
          THEN /\ BackboneStep(0)
               /\ random_state' = random_state
          ELSE /\ CanDraw(random_state, n)
               /\ BackboneStep(RandBelow(random_state, n))
               /\ random_state' = NextState(random_state, n)
    /\ UNCHANGED <<avars, seed, golden>>

SeededExtra ==
    /\ pc = "extra"
    /\ LET n == Len(PossibleChildren(nodes, node_count, i, max_depth)) + 1
       IN /\ CanDraw(random_state, n)
          /\ ExtraStart(RandBelow(random_state, n))
          /\ random_state' = NextState(random_state, n)
    /\ UNCHANGED <<avars, seed, golden>>

\* random.choice is only called when possible_children is not empty
SeededInner ==
    /\ pc = "inner"
    /\ LET n == Len(possible_children)
       IN IF n = 0
          THEN /\ ExtraEdge(0)
               /\ random_state' = random_state
          ELSE /\ CanDraw(random_state, n)
               /\ ExtraEdge(RandBelow(random_state, n))
               /\ random_state' = NextState(random_state, n)
    /\ UNCHANGED <<avars, seed, golden>>

\* golden is a history of the calls: the arguments and the graph of the first
\* call of generate_dag that returned and, after a later call has returned,
\* those of that call (dropped again when the next call begins).
SeededFinish ==
    /\ Layering
    /\ golden' =
         FirstCall(golden) \o
           <<[args |-> <<node_count, max_depth, seed>>,
              edges |-> Edges(adj), layer |-> layer']>>
    /\ UNCHANGED <<avars, random_state, seed>>

NextSeed ==
    Main \/ Rerun \/ SeededBackbone \/ SeededExtra \/ SeededInner \/ SeededFinish

SpecSeed == InitSeed /\ [][NextSeed]_vars

\* ------------------------------------------------------------ properties
\* the nodes reachable from the set s along edges, s included
RECURSIVE ReachFrom(_, _)
ReachFrom(a, s) ==
    LET n == s \cup {e[2] : e \in {f \in Edges(a) : f[1] \in s}}
    IN IF n = s THEN s ELSE ReachFrom(a, n)

InDegree(a, v) == Cardinality({e \in Edges(a) : e[2] = v})

ValidParams == 2 <= node_count /\ node_count <= Len(ascii_uppercase) /\ max_depth >= 1

\* C1: in every graph generate_dag returns for 2 <= node_count <= 26 and
\* max_depth >= 1, whatever the random draws, every edge (u, v) has
\* 0 < index(v) - index(u) <= max_depth, and no node lies on a directed cycle.
C1_EdgeSpan ==
    (pc = "done" /\ ValidParams) =>
        /\ \A e \in Edges(adj) :
              /\ 0 < Index(e[2]) - Index(e[1])
              /\ Index(e[2]) - Index(e[1]) <= max_depth
        /\ \A u \in DOMAIN adj : u \notin ReachFrom(adj, Range(adj[u]))

\* a returned graph with an edge of the full span and more edges than the backbone
C1_Witness ==
    /\ pc = "done" /\ ValidParams /\ max_depth >= 2
    /\ \E e \in Edges(adj) : Index(e[2]) - Index(e[1]) = max_depth
    /\ Cardinality(Edges(adj)) > node_count - 1

\* C2: in every graph generate_dag returns for valid parameters, every node
\* but the first has in-degree at least 1 and every node is reachable from
\* the first node.
C2_Connected ==
    (pc = "done" /\ ValidParams) =>
        /\ \A v \in Range(nodes) \ {nodes[1]} : InDegree(adj, v) >= 1
        /\ ReachFrom(adj, {nodes[1]}) = Range(nodes)

\* a returned graph with a node that is no successor of the first node
C2_Witness ==
    /\ pc = "done" /\ ValidParams
    /\ \E v \in Range(nodes) \ {nodes[1]} : v \notin Range(adj[nodes[1]])

\* C3: once generate_dag has returned, every node has a layer that is a
\* non-negative integer, and layer(u) < layer(v) for every edge (u, v).
C3_Layers ==
    pc = "done" =>
        /\ \A v \in Range(nodes) : layer[v] \in Nat
        /\ \A e \in Edges(adj) : layer[e[1]] < layer[e[2]]

\* a returned graph with an edge that skips a layer
C3_Witness ==
    /\ pc = "done"
    /\ \E e \in Edges(adj) : layer[e[2]] - layer[e[1]] >= 2

\* the paths of s at the positions no later path of which contains them
KeptByLater(s) ==
    LET keep(k) == \A m \in (k + 1)..Len(s) : ~IsSubstring(s[k], s[m])
        F[k \in 0..Len(s)] ==
            IF k = 0 THEN <<>> ELSE F[k - 1] \o (IF keep(k) THEN <<s[k]>> ELSE <<>>)
    IN F[Len(s)]

\* C4: the root-cause paths are the collected paths, in order, at the
\* positions k such that no path at a position > k contains the path at k as
\* a substring; in particular the last collected path is kept.
C4_Filter ==
    apc = "returned" =>
        /\ potential_root_causes = KeptByLater(all_paths)
        /\ all_paths # <<>> =>
              /\ potential_root_causes # <<>>
              /\ potential_root_causes[Len(potential_root_causes)] = all_paths[Len(all_paths)]

\* a path was discarded for a later one, and a path contained in an earlier
\* one was kept
C4_Witness ==
    /\ apc = "returned"
    /\ Len(potential_root_causes) < Len(all_paths)
    /\ \E k, m \in 1..Len(all_paths) :
          /\ k < m
          /\ IsSubstring(all_paths[m], all_paths[k])
          /\ \A n \in (m + 1)..Len(all_paths) : ~IsSubstring(all_paths[m], all_paths[n])

\* position of the first root-cause path that ends at node
FirstSeen(node) ==
    CHOOSE k \in 1..Len(potential_root_causes) :
        /\ potential_root_causes[k][Len(potential_root_causes[k])] = node
        /\ \A m \in 1..(k - 1) :
              potential_root_causes[m][Len(potential_root_causes[m])] # node

\* C5: the returned list has one (label, count) pair per distinct last node of
\* the root-cause paths, count being the number of root-cause paths that end
\* there; counts descend, and equal counts keep first-seen order.
C5_Ranking ==
    apc = "returned" =>
        LET r == sorted_root_causes
            p == potential_root_causes
        IN /\ \A k, m \in 1..Len(r) : r[k][1] = r[m][1] => k = m
           /\ {r[k][1] : k \in 1..Len(r)} = {p[m][Len(p[m])] : m \in 1..Len(p)}
           /\ \A k \in 1..Len(r) :
                 r[k][2] = Cardinality({m \in 1..Len(p) : p[m][Len(p[m])] = r[k][1]})
           /\ \A k, m \in 1..Len(r) : k < m =>
                 /\ r[k][2] >= r[m][2]
                 /\ r[k][2] = r[m][2] => FirstSeen(r[k][1]) < FirstSeen(r[m][1])

\* the sort moved a node seen later, with the larger count, to the front
C5_Witness ==
    /\ apc = "returned"
    /\ Len(sorted_root_causes) >= 2
    /\ sorted_root_causes[1][2] > sorted_root_causes[2][2]
    /\ FirstSeen(sorted_root_causes[1][1]) > FirstSeen(sorted_root_causes[2][1])

\* C6: analyze_root_cause fails whenever some label of issue_nodes is no node
\* of the graph, whatever the length of the list and the position of the label.
C6_UnknownLabelFails ==
    (apc # "idle" /\ \E k \in 1..Len(issue_nodes) : issue_nodes[k] \notin Range(nodes))
        => apc = "raised"

\* C7: generate_dag returns no graph when node_count < 2, node_count > 26 or
\* max_depth < 1.
C7_InvalidParameterFails ==
    (node_count < 2 \/ node_count > Len(ascii_uppercase) \/ max_depth < 1)
        => pc # "done"

\* no flagged node at a later position is reachable from one at an earlier position
NoForwardPath ==
    \A k, m \in 1..Len(issue_nodes) :
        k < m => issue_nodes[m] \notin ReachFrom(adj, {issue_nodes[k]})

\* C8 as stated: analyze_root_cause returns the empty list and does not
\* raise when issue_nodes has fewer than 2 elements, and when no pair
\* (issue_nodes[i], issue_nodes[j]), i < j, has a directed path from the first
\* to the second.  It fails for a list such as ['C', 'A'] on the graph A -> B:
\* no path leaves 'C', which is no node, and all_simple_paths raises
\* NodeNotFound for it.
C8_AsStated ==
    apc # "idle" =>
        /\ Len(issue_nodes) < 2 => (apc = "returned" /\ sorted_root_causes = <<>>)
        /\ NoForwardPath => (apc = "returned" /\ sorted_root_causes = <<>>)

\* C8, amended: analyze_root_cause returns the empty list and does not raise
\* when issue_nodes has fewer than 2 elements, and when every element of
\* issue_nodes is a node of the graph and no pair (issue_nodes[i],
\* issue_nodes[j]), i < j, has a directed path from the first to the second.
C8_EmptyResult ==
    apc # "idle" =>
        /\ Len(issue_nodes) < 2 => (apc = "returned" /\ sorted_root_causes = <<>>)
        /\ (Range(issue_nodes) \subseteq Range(nodes) /\ NoForwardPath)
              => (apc = "returned" /\ sorted_root_causes = <<>>)

\* two or more flagged nodes, none reaching a later one, one reaching an earlier one
C8_Witness ==
    /\ apc = "returned"
    /\ Len(issue_nodes) >= 2
    /\ Range(issue_nodes) \subseteq Range(nodes)
    /\ NoForwardPath
    /\ sorted_root_causes = <<>>
    /\ \E k, m \in 1..Len(issue_nodes) :
          k < m /\ issue_nodes[k] \in ReachFrom(adj, {issue_nodes[m]})

\* C9: a run of main that generates with the same (num_nodes, depth, seed)
\* as the first run returns the same edge set and the same layers, whatever
\* runs, generating or not, came in between.
C9_Deterministic ==
    (Len(golden) = 2 /\ golden[2].args = golden[1].args)
        => (golden[2].edges = golden[1].edges /\ golden[2].layer = golden[1].layer)

\* a later run with the arguments of the first has returned with extra edges,
\* and a run without generating has since changed the seed input
C9_Witness ==
    /\ pc = "done"
    /\ Len(golden) = 2
    /\ golden[2].args = golden[1].args
    /\ Cardinality(golden[2].edges) > node_count - 1
    /\ seed # golden[2].args[3]

\* C10: every label of the returned list is an element of issue_nodes at a
\* list index >= 1 (0-based), and with pairwise distinct labels it is never
\* the first flagged node.
C10_ResultLabels ==
    apc = "returned" =>
        \A k \in 1..Len(sorted_root_causes) :
            /\ \E m \in 2..Len(issue_nodes) : issue_nodes[m] = sorted_root_causes[k][1]
            /\ (\A x, y \in 1..Len(issue_nodes) : issue_nodes[x] = issue_nodes[y] => x = y)
                  => sorted_root_causes[k][1] # issue_nodes[1]

\* a non-empty result although a path leads into the first flagged node
C10_Witness ==
    /\ apc = "returned"
    /\ sorted_root_causes # <<>>
    /\ \E m \in 2..Len(issue_nodes) :
          /\ issue_nodes[m] \in Range(nodes)
          /\ issue_nodes[1] \in ReachFrom(adj, {issue_nodes[m]})
====
